---- MODULE Spec2Model ----
(***************************************************************************)
(* Interview dialogue orchestrator: InterviewerBot (Part3/interviewer.py)  *)
(* behind the /interview/start and /interview/chat endpoints (api.py).     *)
(*                                                                         *)
(* Texts are sequences of tokens.  A control phrase that the code matches  *)
(* as a substring (the sentinel) is two tokens long, so that str.replace   *)
(* and the "in" test are modelled on text and not on a flag.               *)
(***************************************************************************)
EXTENDS Naturals, Integers, Sequences, FiniteSets, TLC

VARIABLES
    cfg,                 \* MAX_WARNINGS / MAX_PRIMARY_QUESTIONS / MAX_ELABORATIONS in force
    bots,                \* every InterviewerBot ever constructed, indexed by session id
    INTERVIEW_SESSIONS,  \* api.py: ids whose bot is in the in-memory session map
    reqs,                \* per client: the chat request it has outstanding
    resp,                \* the last HTTP response sent by the server
    last_call,           \* the last generation call: session, call site, outcome
    budget               \* what the exploration may still do: clients, sessions, turns, signals

vars == <<cfg, bots, INTERVIEW_SESSIONS, reqs, resp, last_call, budget>>

----------------------------------------------------------------------------
(* Bounds of the exploration *)

MaxExtraTurns == 1   \* chat turns of a long run beyond those of an undisturbed interview
MaxSignals == 2      \* generation outcomes of a long run that are not a plain question
MaxSessions == 2     \* sessions of a wide run
MaxClients == 2      \* clients of a wide run
MaxWideTurns == 3    \* chat turns of a wide run, over all its sessions

(* Program constants, interviewer.py:37-40 *)

MAX_WARNINGS == 1
MAX_PRIMARY_QUESTIONS == 5
MAX_ELABORATIONS == 1
MEMORY_WINDOW == 8

Clients == 1..MaxClients

----------------------------------------------------------------------------
(* Text *)

SENTINEL_END_PHRASE == <<"<<END_", "INTERVIEW>>">>
TERMINATION_TAG == <<"PROTOCOL_TERMINATE_UNPROFESSIONAL">>
WARNING_TAG == <<"PROTOCOL_WARNING_UNPROFESSIONAL">>
PIVOT_TAG == <<"PROTOCOL_PIVOT_TO_NEW_TOPIC">>
SOFT_CLOSE_TAG == <<"PROTOCOL_INITIATE_SOFT_CLOSE">>

REPETITION_PHRASES ==
    { <<"To ensure clarity, I will repeat the question:">>,
      <<"Let me clarify that point for you:">>,
      <<"I'm happy to rephrase the question:">> }

\* str.startswith
StartsWith(s, p) == Len(s) >= Len(p) /\ SubSeq(s, 1, Len(p)) = p

\* sub in s
Contains(s, sub) ==
    \E i \in 1..(Len(s) + 1) :
        i + Len(sub) - 1 <= Len(s) /\ SubSeq(s, i, i + Len(sub) - 1) = sub

\* str.strip(): leading and trailing whitespace removed
RECURSIVE LStrip(_)
LStrip(s) == IF s # <<>> /\ Head(s) = " " THEN LStrip(Tail(s)) ELSE s

RECURSIVE RStrip(_)
RStrip(s) ==
    IF s # <<>> /\ s[Len(s)] = " " THEN RStrip(SubSeq(s, 1, Len(s) - 1)) ELSE s

Strip(s) == RStrip(LStrip(s))

\* str.replace(old, ""): one left-to-right pass over non-overlapping occurrences
RECURSIVE Remove(_, _)
Remove(s, old) ==
    IF s = <<>> THEN <<>>
    ELSE IF StartsWith(s, old)
         THEN Remove(SubSeq(s, Len(old) + 1, Len(s)), old)
         ELSE <<Head(s)>> \o Remove(Tail(s), old)

----------------------------------------------------------------------------
(* InterviewerBot *)

Entry(type, content) == [type |-> type, content |-> content]

CANDIDATE_NAME == "Candidate"

initial_greeting ==
    <<"Hello", " ", CANDIDATE_NAME, ",", " ", "thank you for joining me today.">>

warning_message ==
    <<"I noticed your last response was unprofessional.", " ", "I'll re-ask the question.">>

termination_message ==
    <<"I appreciate your time, but", " ", "I must conclude this interview now.">>

\* InterviewerBot.__init__
NewBot ==
    [ warning_count          |-> 0,
      primary_question_count |-> 0,
      elaboration_count      |-> 0,
      is_finished            |-> FALSE,
      is_in_soft_close       |-> FALSE,
      transcript_history     |-> <<>>,
      memory                 |-> <<>>,
      guide_log              |-> <<>> ]

\* the number of candidate replies a bot has taken
TurnsOf(b) ==
    Cardinality({i \in 1..Len(b.transcript_history) : b.transcript_history[i].type = "human"})

\* faulty variant of init_session: the greeting goes to the memory only
init_session_MemoryOnly(b) ==
    [b EXCEPT !.memory = Append(@, Entry("ai", initial_greeting))]

\* InterviewerBot.init_session
init_session(b) ==
    [b EXCEPT !.transcript_history = Append(@, Entry("ai", initial_greeting)),
              !.memory = Append(@, Entry("ai", initial_greeting))]

----------------------------------------------------------------------------
(* The text-generation collaborator: what self.llm.invoke(messages) does *)

Question == <<"Q">>

Ok(content) == [kind |-> "ok", content |-> content]

LLMOutcomes ==
    { Ok(Question),                                                   \* an ordinary question
      Ok(<<" ">> \o WARNING_TAG \o <<" ">>),                          \* the misconduct tag
      Ok(Question \o <<" ">> \o SENTINEL_END_PHRASE),                 \* a goodbye with the sentinel
      Ok(<<"<<END_">> \o SENTINEL_END_PHRASE \o <<"INTERVIEW>>">>),   \* a sentinel inside a sentinel
      Ok(<<"Let me clarify that point for you:", " ">> \o Question),  \* a clarification
      [kind |-> "raise", content |-> <<"timeout">>],                  \* llm.invoke raises
      [kind |-> "crash", content |-> <<"OSError">>] }                 \* an exception outside the try

IsPlain(o) == o = Ok(Question)

\* InterviewerBot._invoke_llm_for_response: the value returned for an outcome
\* of llm.invoke (kinds "ok" and "raise")
_invoke_llm_for_response(o) ==
    IF o.kind = "ok"
    THEN Strip(o.content)
    ELSE <<"[LLM_ERROR] The AI model failed to respond:", " ">> \o o.content

\* _invoke_llm_for_response, lines 132-136: the history sent with a call is
\* chat_memory.messages, the list every add_*_message call appends to
Messages(b) == b.memory

----------------------------------------------------------------------------
(* Pacing and protocol handling *)

\* faulty variant of ActionGuide: the follow-up test is off by one
ActionGuide_OffByOne(b) ==
    IF b.primary_question_count = 0 THEN "FIRST_TOPIC"
    ELSE IF b.elaboration_count <= cfg.M THEN "ASK_FOLLOW_UP"
    ELSE "PIVOT_NEW_TOPIC"

\* process_turn, lines 197-202: the action guide for the counters
ActionGuide(b) ==
    IF b.primary_question_count = 0 THEN "FIRST_TOPIC"
    ELSE IF b.elaboration_count < cfg.M THEN "ASK_FOLLOW_UP"
    ELSE "PIVOT_NEW_TOPIC"

\* faulty variant of ProcessTurnHead: the candidate's reply is recorded after
\* the soft-close test, on the ordinary path only
ProcessTurnHead_HumanAfterBranch(b, candidate_reply) ==
    LET b1 == [b EXCEPT !.transcript_history = Append(@, Entry("human", candidate_reply)),
                        !.memory = Append(@, Entry("human", candidate_reply))]
    IN  IF b.is_in_soft_close
        THEN [bot |-> [b EXCEPT !.guide_log = Append(@, "FINAL_SIGNAL")],
              site |-> "soft_continue"]
        ELSE IF b1.primary_question_count >= cfg.N
        THEN [bot |-> [b1 EXCEPT !.is_in_soft_close = TRUE,
                                 !.guide_log = Append(@, "SOFT_CLOSE")],
              site |-> "soft_initiate"]
        ELSE [bot |-> [b1 EXCEPT !.guide_log = Append(@, ActionGuide(b1))],
              site |-> "turn"]

\* faulty variant of ProcessTurnHead: the override waits for the follow-ups
\* of the last topic
ProcessTurnHead_OverrideAfterFollowUp(b, candidate_reply) ==
    LET b1 == [b EXCEPT !.transcript_history = Append(@, Entry("human", candidate_reply)),
                        !.memory = Append(@, Entry("human", candidate_reply))]
    IN  IF b1.is_in_soft_close
        THEN [bot |-> [b1 EXCEPT !.guide_log = Append(@, "FINAL_SIGNAL")],
              site |-> "soft_continue"]
        ELSE IF b1.primary_question_count >= cfg.N /\ b1.elaboration_count >= cfg.M
        THEN [bot |-> [b1 EXCEPT !.is_in_soft_close = TRUE,
                                 !.guide_log = Append(@, "SOFT_CLOSE")],
              site |-> "soft_initiate"]
        ELSE [bot |-> [b1 EXCEPT !.guide_log = Append(@, ActionGuide(b1))],
              site |-> "turn"]

\* faulty variant of ProcessTurnHead: the override test is strict
ProcessTurnHead_OverrideStrict(b, candidate_reply) ==
    LET b1 == [b EXCEPT !.transcript_history = Append(@, Entry("human", candidate_reply)),
                        !.memory = Append(@, Entry("human", candidate_reply))]
    IN  IF b1.is_in_soft_close
        THEN [bot |-> [b1 EXCEPT !.guide_log = Append(@, "FINAL_SIGNAL")],
              site |-> "soft_continue"]
        ELSE IF b1.primary_question_count > cfg.N
        THEN [bot |-> [b1 EXCEPT !.is_in_soft_close = TRUE,
                                 !.guide_log = Append(@, "SOFT_CLOSE")],
              site |-> "soft_initiate"]
        ELSE [bot |-> [b1 EXCEPT !.guide_log = Append(@, ActionGuide(b1))],
              site |-> "turn"]

\* faulty variant of ProcessTurnHead: the override is tested after the
\* follow-up guide
ProcessTurnHead_FollowUpBeforeOverride(b, candidate_reply) ==
    LET b1 == [b EXCEPT !.transcript_history = Append(@, Entry("human", candidate_reply)),
                        !.memory = Append(@, Entry("human", candidate_reply))]
    IN  IF b1.is_in_soft_close
        THEN [bot |-> [b1 EXCEPT !.guide_log = Append(@, "FINAL_SIGNAL")],
              site |-> "soft_continue"]
        ELSE IF b1.primary_question_count > 0 /\ b1.elaboration_count < cfg.M
        THEN [bot |-> [b1 EXCEPT !.guide_log = Append(@, "ASK_FOLLOW_UP")],
              site |-> "turn"]
        ELSE IF b1.primary_question_count >= cfg.N
        THEN [bot |-> [b1 EXCEPT !.is_in_soft_close = TRUE,
                                 !.guide_log = Append(@, "SOFT_CLOSE")],
              site |-> "soft_initiate"]
        ELSE [bot |-> [b1 EXCEPT !.guide_log = Append(@, ActionGuide(b1))],
              site |-> "turn"]

\* process_turn, lines 187-202 and the first line of the soft-close helpers:
\* everything a turn does before its first generation call
ProcessTurnHead(b, candidate_reply) ==
    LET b1 == [b EXCEPT !.transcript_history = Append(@, Entry("human", candidate_reply)),
                        !.memory = Append(@, Entry("human", candidate_reply))]
    IN  IF b1.is_in_soft_close
        THEN [bot |-> [b1 EXCEPT !.guide_log = Append(@, "FINAL_SIGNAL")],
              site |-> "soft_continue"]
        ELSE IF b1.primary_question_count >= cfg.N
        THEN [bot |-> [b1 EXCEPT !.is_in_soft_close = TRUE,
                                 !.guide_log = Append(@, "SOFT_CLOSE")],
              site |-> "soft_initiate"]
        ELSE [bot |-> [b1 EXCEPT !.guide_log = Append(@, ActionGuide(b1))],
              site |-> "turn"]

\* faulty variant of HandleWarning: the limit test allows one warning more
HandleWarning_LateTermination(b) ==
    LET b1 == [b EXCEPT !.warning_count = @ + 1,
                        !.transcript_history = Append(@, Entry("PROTOCOL", WARNING_TAG))]
    IN  IF b1.warning_count > cfg.W + 1
        THEN [bot |-> [b1 EXCEPT !.is_finished = TRUE,
                                 !.transcript_history =
                                     @ \o <<Entry("PROTOCOL", TERMINATION_TAG),
                                            Entry("ai", termination_message)>>],
              reply |-> termination_message,
              reask |-> FALSE]
        ELSE [bot |-> [b1 EXCEPT !.transcript_history = Append(@, Entry("ai", warning_message)),
                                 !.memory = Append(@, Entry("ai", warning_message)),
                                 !.guide_log = Append(@, "RE_ASK")],
              reply |-> warning_message,
              reask |-> TRUE]

\* faulty variant of HandleWarning: the warning message is not recorded
HandleWarning_NoWarningEntry(b) ==
    LET b1 == [b EXCEPT !.warning_count = @ + 1,
                        !.transcript_history = Append(@, Entry("PROTOCOL", WARNING_TAG))]
    IN  IF b1.warning_count > cfg.W
        THEN [bot |-> [b1 EXCEPT !.is_finished = TRUE,
                                 !.transcript_history =
                                     @ \o <<Entry("PROTOCOL", TERMINATION_TAG),
                                            Entry("ai", termination_message)>>],
              reply |-> termination_message,
              reask |-> FALSE]
        ELSE [bot |-> [b1 EXCEPT !.memory = Append(@, Entry("ai", warning_message)),
                                 !.guide_log = Append(@, "RE_ASK")],
              reply |-> warning_message,
              reask |-> TRUE]

\* faulty variant of HandleWarning: the warning counts as a follow-up
HandleWarning_CountsAsStep(b) ==
    LET b1 == [b EXCEPT !.warning_count = @ + 1,
                        !.transcript_history = Append(@, Entry("PROTOCOL", WARNING_TAG))]
    IN  IF b1.warning_count > cfg.W
        THEN [bot |-> [b1 EXCEPT !.is_finished = TRUE,
                                 !.transcript_history =
                                     @ \o <<Entry("PROTOCOL", TERMINATION_TAG),
                                            Entry("ai", termination_message)>>],
              reply |-> termination_message,
              reask |-> FALSE]
        ELSE [bot |-> [b1 EXCEPT !.transcript_history = Append(@, Entry("ai", warning_message)),
                                 !.memory = Append(@, Entry("ai", warning_message)),
                                 !.elaboration_count = @ + 1,
                                 !.guide_log = Append(@, "RE_ASK")],
              reply |-> warning_message,
              reask |-> TRUE]

\* faulty variant of HandleWarning: the termination branch does not return
\* and falls through to the re-ask
HandleWarning_ReaskOnTermination(b) ==
    LET b1 == [b EXCEPT !.warning_count = @ + 1,
                        !.transcript_history = Append(@, Entry("PROTOCOL", WARNING_TAG))]
    IN  IF b1.warning_count > cfg.W
        THEN [bot |-> [b1 EXCEPT !.is_finished = TRUE,
                                 !.transcript_history =
                                     @ \o <<Entry("PROTOCOL", TERMINATION_TAG),
                                            Entry("ai", termination_message)>>],
              reply |-> termination_message,
              reask |-> TRUE]
        ELSE [bot |-> [b1 EXCEPT !.transcript_history = Append(@, Entry("ai", warning_message)),
                                 !.memory = Append(@, Entry("ai", warning_message)),
                                 !.guide_log = Append(@, "RE_ASK")],
              reply |-> warning_message,
              reask |-> TRUE]

\* _handle_protocol_response, lines 151-166: the reply is the misconduct tag
HandleWarning(b) ==
    LET b1 == [b EXCEPT !.warning_count = @ + 1,
                        !.transcript_history = Append(@, Entry("PROTOCOL", WARNING_TAG))]
    IN  IF b1.warning_count > cfg.W
        THEN [bot |-> [b1 EXCEPT !.is_finished = TRUE,
                                 !.transcript_history =
                                     @ \o <<Entry("PROTOCOL", TERMINATION_TAG),
                                            Entry("ai", termination_message)>>],
              reply |-> termination_message,
              reask |-> FALSE]
        ELSE [bot |-> [b1 EXCEPT !.transcript_history = Append(@, Entry("ai", warning_message)),
                                 !.memory = Append(@, Entry("ai", warning_message)),
                                 !.guide_log = Append(@, "RE_ASK")],
              reply |-> warning_message,
              reask |-> TRUE]

\* faulty variant of HandleReply: the reply overwrites the last entry
HandleReply_ReplaceLast(b, bot_text) ==
    IF Contains(bot_text, SENTINEL_END_PHRASE)
    THEN LET final_message == Strip(Remove(bot_text, SENTINEL_END_PHRASE))
         IN  [bot |-> [b EXCEPT !.is_finished = TRUE,
                                !.transcript_history =
                                    @ \o <<Entry("PROTOCOL", SENTINEL_END_PHRASE),
                                           Entry("ai", final_message)>>],
              reply |-> final_message]
    ELSE [bot |-> [b EXCEPT !.transcript_history =
                                SubSeq(@, 1, Len(@) - 1) \o <<Entry("ai", bot_text)>>,
                            !.memory = Append(@, Entry("ai", bot_text))],
          reply |-> bot_text]

\* _handle_protocol_response, lines 170-181: sentinel scan and the ai entry
HandleReply(b, bot_text) ==
    IF Contains(bot_text, SENTINEL_END_PHRASE)
    THEN LET final_message == Strip(Remove(bot_text, SENTINEL_END_PHRASE))
         IN  [bot |-> [b EXCEPT !.is_finished = TRUE,
                                !.transcript_history =
                                    @ \o <<Entry("PROTOCOL", SENTINEL_END_PHRASE),
                                           Entry("ai", final_message)>>],
              reply |-> final_message]
    ELSE [bot |-> [b EXCEPT !.transcript_history = Append(@, Entry("ai", bot_text)),
                            !.memory = Append(@, Entry("ai", bot_text))],
          reply |-> bot_text]

\* process_turn, line 210
is_repetition(final_bot_text) ==
    \E phrase \in REPETITION_PHRASES : StartsWith(final_bot_text, phrase)

\* faulty variant of ProcessTurnTail: the clarification test is left out
ProcessTurnTail_NoClarificationTest(b, final_bot_text) ==
    IF b.is_finished
    THEN [bot |-> b, reply |-> final_bot_text, is_finished |-> TRUE]
    ELSE LET b2 ==
                 IF b.primary_question_count = 0
                 THEN [b EXCEPT !.primary_question_count = 1]
                 ELSE IF b.elaboration_count >= cfg.M
                 THEN [b EXCEPT !.primary_question_count = @ + 1,
                                !.elaboration_count = 0,
                                !.transcript_history = Append(@, Entry("PROTOCOL", PIVOT_TAG))]
                 ELSE [b EXCEPT !.elaboration_count = @ + 1]
         IN  [bot |-> b2, reply |-> final_bot_text, is_finished |-> b2.is_finished]

\* faulty variant of ProcessTurnTail: the pivot test is off by one
ProcessTurnTail_LatePivot(b, final_bot_text) ==
    IF b.is_finished
    THEN [bot |-> b, reply |-> final_bot_text, is_finished |-> TRUE]
    ELSE LET b2 ==
                 IF is_repetition(final_bot_text) THEN b
                 ELSE IF b.primary_question_count = 0
                 THEN [b EXCEPT !.primary_question_count = 1]
                 ELSE IF b.elaboration_count > cfg.M
                 THEN [b EXCEPT !.primary_question_count = @ + 1,
                                !.elaboration_count = 0,
                                !.transcript_history = Append(@, Entry("PROTOCOL", PIVOT_TAG))]
                 ELSE [b EXCEPT !.elaboration_count = @ + 1]
         IN  [bot |-> b2, reply |-> final_bot_text, is_finished |-> b2.is_finished]

\* faulty variant of ProcessTurnTail: no early return for a finished session
ProcessTurnTail_NoFinishedReturn(b, final_bot_text) ==
    LET b2 ==
            IF is_repetition(final_bot_text) THEN b
            ELSE IF b.primary_question_count = 0
            THEN [b EXCEPT !.primary_question_count = 1]
            ELSE IF b.elaboration_count >= cfg.M
            THEN [b EXCEPT !.primary_question_count = @ + 1,
                           !.elaboration_count = 0,
                           !.transcript_history = Append(@, Entry("PROTOCOL", PIVOT_TAG))]
            ELSE [b EXCEPT !.elaboration_count = @ + 1]
    IN  [bot |-> b2, reply |-> final_bot_text, is_finished |-> b2.is_finished]

\* faulty variant of ProcessTurnTail: the error text of a failed generation
\* call does not use up a pacing step
ProcessTurnTail_ErrorNotCounted(b, final_bot_text) ==
    IF b.is_finished
    THEN [bot |-> b, reply |-> final_bot_text, is_finished |-> TRUE]
    ELSE LET b2 ==
                 IF \/ is_repetition(final_bot_text)
                    \/ StartsWith(final_bot_text,
                                  <<"[LLM_ERROR] The AI model failed to respond:">>)
                 THEN b
                 ELSE IF b.primary_question_count = 0
                 THEN [b EXCEPT !.primary_question_count = 1]
                 ELSE IF b.elaboration_count >= cfg.M
                 THEN [b EXCEPT !.primary_question_count = @ + 1,
                                !.elaboration_count = 0,
                                !.transcript_history = Append(@, Entry("PROTOCOL", PIVOT_TAG))]
                 ELSE [b EXCEPT !.elaboration_count = @ + 1]
         IN  [bot |-> b2, reply |-> final_bot_text, is_finished |-> b2.is_finished]

\* process_turn, lines 207-224: the counters after the reply was handled, and
\* the pair process_turn returns
ProcessTurnTail(b, final_bot_text) ==
    IF b.is_finished
    THEN [bot |-> b, reply |-> final_bot_text, is_finished |-> TRUE]
    ELSE LET b2 ==
                 IF is_repetition(final_bot_text) THEN b
                 ELSE IF b.primary_question_count = 0
                 THEN [b EXCEPT !.primary_question_count = 1]
                 ELSE IF b.elaboration_count >= cfg.M
                 THEN [b EXCEPT !.primary_question_count = @ + 1,
                                !.elaboration_count = 0,
                                !.transcript_history = Append(@, Entry("PROTOCOL", PIVOT_TAG))]
                 ELSE [b EXCEPT !.elaboration_count = @ + 1]
         IN  [bot |-> b2, reply |-> final_bot_text, is_finished |-> b2.is_finished]

\* _initiate_soft_close, lines 232-236
_initiate_soft_close(b, bot_text) ==
    [bot |-> [b EXCEPT !.transcript_history =
                           @ \o <<Entry("PROTOCOL", SOFT_CLOSE_TAG), Entry("ai", bot_text)>>,
                       !.memory = Append(@, Entry("ai", bot_text))],
     reply |-> bot_text,
     is_finished |-> FALSE]

\* faulty variant of _continue_soft_close: the sentinel branch returns False
_continue_soft_close_StaleFlag(b, bot_text) ==
    IF Contains(bot_text, SENTINEL_END_PHRASE)
    THEN LET final_message == Strip(Remove(bot_text, SENTINEL_END_PHRASE))
         IN  [bot |-> [b EXCEPT !.is_finished = TRUE,
                                !.transcript_history =
                                    @ \o <<Entry("PROTOCOL", SENTINEL_END_PHRASE),
                                           Entry("ai", final_message)>>],
              reply |-> final_message,
              is_finished |-> FALSE]
    ELSE [bot |-> [b EXCEPT !.transcript_history = Append(@, Entry("ai", bot_text)),
                            !.memory = Append(@, Entry("ai", bot_text))],
          reply |-> bot_text,
          is_finished |-> FALSE]

\* faulty variant of _continue_soft_close: a reply without the sentinel ends
\* the session too
_continue_soft_close_ForceFinish(b, bot_text) ==
    IF Contains(bot_text, SENTINEL_END_PHRASE)
    THEN LET final_message == Strip(Remove(bot_text, SENTINEL_END_PHRASE))
         IN  [bot |-> [b EXCEPT !.is_finished = TRUE,
                                !.transcript_history =
                                    @ \o <<Entry("PROTOCOL", SENTINEL_END_PHRASE),
                                           Entry("ai", final_message)>>],
              reply |-> final_message,
              is_finished |-> TRUE]
    ELSE [bot |-> [b EXCEPT !.is_finished = TRUE,
                            !.transcript_history = Append(@, Entry("ai", bot_text)),
                            !.memory = Append(@, Entry("ai", bot_text))],
          reply |-> bot_text,
          is_finished |-> TRUE]

\* _continue_soft_close, lines 243-252
_continue_soft_close(b, bot_text) ==
    IF Contains(bot_text, SENTINEL_END_PHRASE)
    THEN LET final_message == Strip(Remove(bot_text, SENTINEL_END_PHRASE))
         IN  [bot |-> [b EXCEPT !.is_finished = TRUE,
                                !.transcript_history =
                                    @ \o <<Entry("PROTOCOL", SENTINEL_END_PHRASE),
                                           Entry("ai", final_message)>>],
              reply |-> final_message,
              is_finished |-> TRUE]
    ELSE [bot |-> [b EXCEPT !.transcript_history = Append(@, Entry("ai", bot_text)),
                            !.memory = Append(@, Entry("ai", bot_text))],
          reply |-> bot_text,
          is_finished |-> FALSE]

\* get_context_for_grading
get_context_for_grading(b) ==
    [candidate_name |-> CANDIDATE_NAME, transcript |-> b.transcript_history]

----------------------------------------------------------------------------
(* The two endpoints of api.py.  Both handlers are "async def" and contain no
   await: a handler that has started holds the event loop until it returns,
   also while its blocking llm.invoke call is outstanding. *)

Idle == [pc |-> "idle", sid |-> 0, site |-> "none", calls |-> 0]

CANDIDATE_REPLY == <<"answer">>

NoResponse ==
    [status |-> 0, session_id |-> 0, message |-> <<>>, is_finished |-> FALSE,
     final_context |-> <<>>, calls |-> 0, raised |-> FALSE]

NoCall == [sid |-> 0, site |-> "none", out |-> Ok(<<>>)]

\* faulty variant of EventLoopFree: handlers declared "def" run in a thread pool
EventLoopFree_ThreadPool == TRUE

\* no handler is running on the event loop
EventLoopFree == \A c \in Clients : reqs[c].pc # "llm"

\* faulty variant of SessionFound: the lookup sees every bot ever created
SessionFound_AnyCreated(session_id) == session_id \in 1..Len(bots)

\* api.py line 144
SessionFound(session_id) == session_id \in INTERVIEW_SESSIONS

\* faulty variant of TearDown: the finished session is left in the map
TearDown_Never(session_id, is_finished) == INTERVIEW_SESSIONS

\* faulty variant of TearDown: a finished turn clears the whole map
TearDown_ClearAll(session_id, is_finished) ==
    IF is_finished THEN {} ELSE INTERVIEW_SESSIONS

\* api.py lines 152-153: the session map after a turn that returned is_finished
TearDown(session_id, is_finished) ==
    IF is_finished THEN INTERVIEW_SESSIONS \ {session_id} ELSE INTERVIEW_SESSIONS

\* faulty variant of FinalContext: the context is assembled on every turn
FinalContext_Always(b, is_finished) == <<get_context_for_grading(b)>>

\* chat_interview_logic lines 312-318
FinalContext(b, is_finished) ==
    IF is_finished THEN <<get_context_for_grading(b)>> ELSE <<>>

\* The limits are module constants in the source; the runs cover every pair
\* of limits up to the source's values.
Configs == [N : 1..MAX_PRIMARY_QUESTIONS, M : 0..MAX_ELABORATIONS, W : {MAX_WARNINGS}]

\* the chat turns of an interview in which every reply is a plain question
\* and the closing reply carries the sentinel
UndisturbedTurns(k) == 1 + (k.N - 1) * (k.M + 1) + 2

\* A long run follows one interview, one request at a time.
LongRun(k) ==
    [clients |-> 1, sessions |-> 1, turns |-> UndisturbedTurns(k) + MaxExtraTurns,
     signals |-> MaxSignals]

\* A wide run has several clients and sessions and short interviews.
WideRun ==
    [clients |-> MaxClients, sessions |-> MaxSessions, turns |-> MaxWideTurns,
     signals |-> 1]

WideConfigs == {k \in Configs : k.N = 1 /\ k.M = 0}

Init ==
    /\ \/ cfg \in Configs /\ budget = LongRun(cfg)
       \/ cfg \in WideConfigs /\ budget = WideRun
    /\ bots = <<>>
    /\ INTERVIEW_SESSIONS = {}
    /\ reqs = [c \in Clients |-> Idle]
    /\ resp = NoResponse
    /\ last_call = NoCall

\* POST /interview/start
start_interview ==
    /\ EventLoopFree
    /\ budget.sessions > 0
    /\ budget' = [budget EXCEPT !.sessions = @ - 1]
    /\ LET session_id == Len(bots) + 1
           interviewer_instance == init_session(NewBot)
       IN  /\ bots' = Append(bots, interviewer_instance)
           /\ INTERVIEW_SESSIONS' = INTERVIEW_SESSIONS \cup {session_id}
           /\ resp' = [NoResponse EXCEPT !.status = 200,
                                         !.session_id = session_id,
                                         !.message = initial_greeting]
    /\ UNCHANGED <<cfg, reqs, last_call>>

\* a client posts /interview/chat; the request waits for the event loop
SendChat(c, session_id) ==
    /\ reqs[c].pc = "idle"
    /\ c <= budget.clients
    /\ \A d \in 1..(c - 1) : reqs[d].pc # "idle"    \* clients are interchangeable
    /\ SessionFound(session_id) => budget.turns > 0
    /\ reqs' = [reqs EXCEPT ![c] = [Idle EXCEPT !.pc = "pending", !.sid = session_id]]
    /\ UNCHANGED <<cfg, bots, INTERVIEW_SESSIONS, resp, last_call, budget>>

\* the response of a chat handler and the teardown, api.py lines 150-161
Complete(c, b, ai_response, is_finished, raised) ==
    LET session_id == reqs[c].sid
    IN  /\ bots' = [bots EXCEPT ![session_id] = b]
        /\ INTERVIEW_SESSIONS' = TearDown(session_id, is_finished)
        /\ resp' = [status |-> 200, session_id |-> session_id, message |-> ai_response,
                    is_finished |-> is_finished,
                    final_context |-> FinalContext(b, is_finished),
                    calls |-> reqs[c].calls + (IF raised THEN 0 ELSE 1),
                    raised |-> raised]
        /\ reqs' = [reqs EXCEPT ![c] = Idle]

\* POST /interview/chat starts: lookup, then process_turn up to its first
\* generation call
continue_interview(c) ==
    /\ reqs[c].pc = "pending"
    /\ EventLoopFree
    /\ IF ~SessionFound(reqs[c].sid)
       THEN /\ resp' = [NoResponse EXCEPT !.status = 404, !.session_id = reqs[c].sid]
            /\ reqs' = [reqs EXCEPT ![c] = Idle]
            /\ UNCHANGED <<bots, budget>>
       ELSE LET h == ProcessTurnHead(bots[reqs[c].sid], CANDIDATE_REPLY)
            IN  /\ budget.turns > 0
                /\ budget' = [budget EXCEPT !.turns = @ - 1]
                /\ bots' = [bots EXCEPT ![reqs[c].sid] = h.bot]
                /\ reqs' = [reqs EXCEPT ![c].pc = "llm", ![c].site = h.site]
                /\ UNCHANGED resp
    /\ UNCHANGED <<cfg, INTERVIEW_SESSIONS, last_call>>

\* faulty variant of AfterCall: the re-asked reply is returned without the
\* counter update
AfterCall_ReaskSkipsPacing(c, b, bot_text) ==
    CASE reqs[c].site = "turn" /\ bot_text = WARNING_TAG ->
             LET w == HandleWarning(b)
             IN  IF w.reask
                 THEN /\ bots' = [bots EXCEPT ![reqs[c].sid] = w.bot]
                      /\ reqs' = [reqs EXCEPT ![c].site = "re_ask", ![c].calls = @ + 1]
                      /\ UNCHANGED <<INTERVIEW_SESSIONS, resp>>
                 ELSE LET r == ProcessTurnTail(w.bot, w.reply)
                      IN  Complete(c, r.bot, r.reply, r.is_finished, FALSE)
      [] reqs[c].site = "soft_initiate" ->
             LET r == _initiate_soft_close(b, bot_text)
             IN  Complete(c, r.bot, r.reply, r.is_finished, FALSE)
      [] reqs[c].site = "soft_continue" ->
             LET r == _continue_soft_close(b, bot_text)
             IN  Complete(c, r.bot, r.reply, r.is_finished, FALSE)
      [] reqs[c].site = "re_ask" ->
             LET h == HandleReply(b, bot_text)
             IN  Complete(c, h.bot, h.reply, h.bot.is_finished, FALSE)
      [] OTHER ->
             LET h == HandleReply(b, bot_text)
                 r == ProcessTurnTail(h.bot, h.reply)
             IN  Complete(c, r.bot, r.reply, r.is_finished, FALSE)

\* the turn after a generation call has returned bot_text at the given site
AfterCall(c, b, bot_text) ==
    CASE reqs[c].site = "turn" /\ bot_text = WARNING_TAG ->
             LET w == HandleWarning(b)
             IN  IF w.reask
                 THEN /\ bots' = [bots EXCEPT ![reqs[c].sid] = w.bot]
                      /\ reqs' = [reqs EXCEPT ![c].site = "re_ask", ![c].calls = @ + 1]
                      /\ UNCHANGED <<INTERVIEW_SESSIONS, resp>>
                 ELSE LET r == ProcessTurnTail(w.bot, w.reply)
                      IN  Complete(c, r.bot, r.reply, r.is_finished, FALSE)
      [] reqs[c].site = "soft_initiate" ->
             LET r == _initiate_soft_close(b, bot_text)
             IN  Complete(c, r.bot, r.reply, r.is_finished, FALSE)
      [] reqs[c].site = "soft_continue" ->
             LET r == _continue_soft_close(b, bot_text)
             IN  Complete(c, r.bot, r.reply, r.is_finished, FALSE)
      [] OTHER ->
             LET h == HandleReply(b, bot_text)
                 r == ProcessTurnTail(h.bot, h.reply)
             IN  Complete(c, r.bot, r.reply, r.is_finished, FALSE)

internal_failure == <<"Internal chat processing failure:", " ", "OSError">>

\* a generation call of the running handler ends: llm.invoke returns or raises
\* (kinds "ok", "raise"), or an exception leaves process_turn (kind "crash")
llm_invoke(c, o) ==
    /\ reqs[c].pc = "llm"
    /\ IsPlain(o) \/ budget.signals > 0
    /\ budget' = IF IsPlain(o) THEN budget ELSE [budget EXCEPT !.signals = @ - 1]
    /\ last_call' = [sid |-> reqs[c].sid, site |-> reqs[c].site, out |-> o]
    /\ IF o.kind = "crash"
       THEN Complete(c, bots[reqs[c].sid], internal_failure, TRUE, TRUE)
       ELSE AfterCall(c, bots[reqs[c].sid], _invoke_llm_for_response(o))
    /\ UNCHANGED cfg

Next ==
    \/ start_interview
    \/ \E c \in Clients, session_id \in 1..(Len(bots) + 1) : SendChat(c, session_id)
    \/ \E c \in Clients : continue_interview(c)
    \/ \E c \in Clients, o \in LLMOutcomes : llm_invoke(c, o)

Spec == Init /\ [][Next]_vars

----------------------------------------------------------------------------
(* Properties *)

Sessions == 1..Len(bots)

\* a reply that opens with one of the clarification preambles
ClarificationReply(text) ==
    \/ StartsWith(text, <<"To ensure clarity, I will repeat the question:">>)
    \/ StartsWith(text, <<"Let me clarify that point for you:">>)
    \/ StartsWith(text, <<"I'm happy to rephrase the question:">>)

\* no reply of the session so far was a clarification reply
NoClarification(b) ==
    \A i \in 1..Len(b.transcript_history) :
        b.transcript_history[i].type = "ai"
            => ~ClarificationReply(b.transcript_history[i].content)

Count(log, g) == Cardinality({i \in 1..Len(log) : log[i] = g})

TopicGuides == {"FIRST_TOPIC", "PIVOT_NEW_TOPIC"}

\* the follow-up guides issued for the topic opened by the guide at position i
FollowUps(log, i) ==
    Cardinality({j \in (i + 1)..Len(log) :
                    /\ log[j] = "ASK_FOLLOW_UP"
                    /\ \A k \in (i + 1)..(j - 1) : log[k] \notin TopicGuides})

\* a client's chat turn ends in this step
TurnEnds(c) == reqs[c].pc = "llm" /\ reqs'[c].pc = "idle"

\* a generation call of client c ends in this step
CallEnds(c) == reqs[c].pc = "llm" /\ reqs'[c] # reqs[c]

\* C1: in a session without clarification replies, soft-close is entered after
\* exactly N - 1 PIVOT_NEW_TOPIC guides, and no topic gets more than M
\* ASK_FOLLOW_UP guides.
C1_Pacing ==
    \A s \in Sessions :
        NoClarification(bots[s]) =>
            /\ bots[s].is_in_soft_close
                   => Count(bots[s].guide_log, "PIVOT_NEW_TOPIC") = cfg.N - 1
            /\ \A i \in 1..Len(bots[s].guide_log) :
                   bots[s].guide_log[i] \in TopicGuides
                       => FollowUps(bots[s].guide_log, i) <= cfg.M

C1_Witness ==
    \E s \in Sessions :
        /\ NoClarification(bots[s])
        /\ bots[s].is_in_soft_close
        /\ cfg.N >= 3 /\ cfg.M = 1
        /\ Count(bots[s].guide_log, "ASK_FOLLOW_UP") = cfg.N - 1

\* C2: the counters of a session change only in the step that ends one of its
\* turns with a visible reply that is not a clarification reply; a turn whose
\* visible reply opens with a clarification preamble leaves both unchanged.
C2_ClarificationKeepsCounters ==
    [][\A s \in Sessions :
          (\/ bots'[s].primary_question_count # bots[s].primary_question_count
           \/ bots'[s].elaboration_count # bots[s].elaboration_count)
              => \E c \in Clients :
                     /\ TurnEnds(c) /\ reqs[c].sid = s
                     /\ ~ClarificationReply(resp'.message)]_vars

C2_Witness ==
    /\ resp.status = 200 /\ resp.session_id \in INTERVIEW_SESSIONS
    /\ ClarificationReply(resp.message)
    /\ last_call.site = "turn"
    /\ bots[resp.session_id].primary_question_count >= 1
    /\ bots[resp.session_id].elaboration_count >= 1

\* the reply that the generation call ending in this step produced
Generated == _invoke_llm_for_response(last_call'.out)

\* C3: every generated reply equal to the misconduct tag, in any unfinished
\* session, raises warning_count by exactly 1, and with MAX_WARNINGS = 1 the
\* second one of a session finishes the session on that turn.
C3_EveryTagCounts ==
    [][\A c \in Clients :
          (/\ CallEnds(c)
           /\ last_call'.out.kind = "ok"
           /\ Generated = WARNING_TAG
           /\ ~bots[reqs[c].sid].is_finished)
              => /\ bots'[reqs[c].sid].warning_count = bots[reqs[c].sid].warning_count + 1
                 /\ (cfg.W = 1 /\ bots[reqs[c].sid].warning_count >= 1)
                        => bots'[reqs[c].sid].is_finished]_vars

\* C4: a turn whose generated reply contains the sentinel returns a reply
\* without the sentinel and is_finished = TRUE.
C4_SentinelAlwaysStripped ==
    [][\A c \in Clients :
          (/\ TurnEnds(c)
           /\ last_call'.out.kind = "ok"
           /\ Contains(Generated, SENTINEL_END_PHRASE))
              => /\ ~Contains(resp'.message, SENTINEL_END_PHRASE)
                 /\ resp'.is_finished]_vars

\* C5: a generation call that raises ends the turn with is_finished = TRUE,
\* sets the session's is_finished and leaves the session closed.
C5_GenerationFailureFailsClosed ==
    [][\A c \in Clients :
          (CallEnds(c) /\ last_call'.out.kind = "raise")
              => /\ TurnEnds(c)
                 /\ resp'.is_finished
                 /\ bots'[reqs[c].sid].is_finished
                 /\ reqs[c].sid \notin INTERVIEW_SESSIONS']_vars

\* C6: a finished session stays finished and nothing of it changes again: no
\* transcript entry, no counter, and no handler runs a generation call for it.
C6_FinishedIsTerminal ==
    [][\A s \in Sessions :
          bots[s].is_finished
              => /\ bots'[s] = bots[s]
                 /\ \A c \in Clients : reqs'[c].pc = "llm" => reqs'[c].sid # s]_vars

C6_Witness ==
    /\ resp.status = 404
    /\ resp.session_id \in Sessions
    /\ bots[resp.session_id].is_finished
    /\ Len(bots[resp.session_id].transcript_history) >= 4

\* C7: a chat request for an id that is not in the session map ends with a
\* not-found response, starts no turn and changes no session and no map.
C7_UnknownSessionRejected ==
    [][\A c \in Clients :
          (/\ reqs[c].pc = "pending"
           /\ reqs'[c].pc # "pending"
           /\ reqs[c].sid \notin INTERVIEW_SESSIONS)
              => /\ reqs'[c].pc = "idle"
                 /\ resp'.status = 404
                 /\ resp'.final_context = <<>>
                 /\ UNCHANGED <<bots, INTERVIEW_SESSIONS, last_call>>]_vars

C7_Witness ==
    /\ resp.status = 404
    /\ resp.session_id \in Sessions
    /\ resp.session_id \notin INTERVIEW_SESSIONS
    /\ \E s \in INTERVIEW_SESSIONS : s # resp.session_id

\* C8: a chat turn that returns is_finished = TRUE leaves its session out of
\* the session map; the flag of a turn that returned equals the session's own
\* is_finished; between requests no session in the map is finished.
C8_TearDownOnFinish ==
    [][/\ \A c \in Clients :
              TurnEnds(c) =>
                  /\ resp'.is_finished => reqs[c].sid \notin INTERVIEW_SESSIONS'
                  /\ ~resp'.raised => resp'.is_finished = bots'[reqs[c].sid].is_finished
       /\ (\A c \in Clients : reqs'[c].pc # "llm")
              => \A s \in INTERVIEW_SESSIONS' : ~bots'[s].is_finished]_vars

C8_Witness ==
    /\ resp.status = 200 /\ resp.is_finished /\ ~resp.raised
    /\ last_call.site = "soft_continue"
    /\ bots[resp.session_id].is_finished
    /\ resp.session_id \notin INTERVIEW_SESSIONS

\* C9: no two chat handlers for the same session are in progress together; a
\* second request for the session waits until the running turn has returned.
C9_TurnsSerialized ==
    \A c \in Clients, d \in Clients :
        (c # d /\ reqs[c].pc = "llm" /\ reqs[d].pc = "llm") => reqs[c].sid # reqs[d].sid

C9_Witness ==
    \E c \in Clients, d \in Clients :
        /\ reqs[c].pc = "llm" /\ reqs[c].site = "re_ask"
        /\ reqs[d].pc = "pending" /\ reqs[d].sid = reqs[c].sid

\* C10: a grading context is only ever assembled from a session whose
\* is_finished is TRUE.
C10_ContextOnlyWhenFinished ==
    (resp.status = 200 /\ resp.final_context # <<>>)
        => bots[resp.session_id].is_finished

\* C11: a response carries a grading context if and only if its is_finished
\* flag is TRUE, and the context of a chat response is the one assembled from
\* the session the turn was processed for.
C11_ContextIffFinished ==
    /\ (resp.final_context # <<>>) <=> resp.is_finished
    /\ resp.final_context # <<>>
           => resp.final_context = <<get_context_for_grading(bots[resp.session_id])>>

C11_Witness ==
    /\ resp.status = 200 /\ resp.is_finished /\ ~resp.raised
    /\ Len(resp.final_context) = 1
    /\ Len(resp.final_context[1].transcript) >= 6
    /\ resp.final_context[1].transcript = bots[resp.session_id].transcript_history

\* C12: warning_count of every session lies in 0 .. MAX_WARNINGS + 1, and a
\* session whose warning_count is MAX_WARNINGS + 1 is finished.
C12_WarningCountBounded ==
    \A s \in Sessions :
        /\ bots[s].warning_count \in 0..(cfg.W + 1)
        /\ bots[s].warning_count = cfg.W + 1 => bots[s].is_finished

C12_Witness ==
    \E s \in Sessions :
        /\ bots[s].warning_count = cfg.W + 1
        /\ bots[s].is_finished
        /\ TurnsOf(bots[s]) >= 3

\* C13: in every state of every session, also after clarification and
\* misconduct turns, primary_question_count lies in 0 .. MAX_PRIMARY_QUESTIONS
\* and elaboration_count in 0 .. MAX_ELABORATIONS.
C13_PacingCountersBounded ==
    \A s \in Sessions :
        /\ bots[s].primary_question_count \in 0..cfg.N
        /\ bots[s].elaboration_count \in 0..cfg.M

C13_Witness ==
    \E s \in Sessions :
        /\ cfg.N = MAX_PRIMARY_QUESTIONS /\ cfg.M = MAX_ELABORATIONS
        /\ bots[s].primary_question_count = cfg.N
        /\ bots[s].is_in_soft_close
        /\ bots[s].warning_count = 1
        /\ ~NoClarification(bots[s])

\* s is a prefix of t
IsPrefix(s, t) == Len(s) <= Len(t) /\ SubSeq(t, 1, Len(s)) = s

\* C14: the transcript is append-only: in every step, the transcript a session
\* had before is a prefix of the transcript it has after.
C14_TranscriptAppendOnly ==
    [][\A s \in Sessions :
          IsPrefix(bots[s].transcript_history, bots'[s].transcript_history)]_vars

C14_Witness ==
    \E s \in Sessions :
        /\ bots[s].is_finished
        /\ \E i \in 1..Len(bots[s].transcript_history) :
               bots[s].transcript_history[i] = Entry("PROTOCOL", PIVOT_TAG)
        /\ \E i \in 1..Len(bots[s].transcript_history) :
               bots[s].transcript_history[i] = Entry("PROTOCOL", WARNING_TAG)
        /\ \E i \in 1..Len(bots[s].transcript_history) :
               bots[s].transcript_history[i] = Entry("PROTOCOL", SOFT_CLOSE_TAG)
        /\ bots[s].transcript_history[1] = Entry("ai", initial_greeting)

\* C15: every session in the session map has a transcript whose first entry
\* is the ai greeting, and a session enters the map in the step whose response
\* returns that greeting, with the greeting already in its transcript.
C15_GreetingSeedsTranscript ==
    [][/\ \A s \in INTERVIEW_SESSIONS' :
              /\ Len(bots'[s].transcript_history) >= 1
              /\ bots'[s].transcript_history[1] = Entry("ai", initial_greeting)
       /\ \A s \in INTERVIEW_SESSIONS' \ INTERVIEW_SESSIONS :
              /\ resp'.status = 200 /\ resp'.session_id = s
              /\ bots'[s].transcript_history = <<Entry("ai", resp'.message)>>]_vars

C15_Witness ==
    /\ resp.status = 200 /\ resp.message = initial_greeting
    /\ resp.session_id \in INTERVIEW_SESSIONS
    /\ Len(bots[resp.session_id].transcript_history) = 1
    /\ \E s \in INTERVIEW_SESSIONS :
           /\ TurnsOf(bots[s]) >= 2
           /\ bots[s].transcript_history[1] = Entry("ai", initial_greeting)

\* the entries a step appends to the transcript of session s
Appended(s) ==
    SubSeq(bots'[s].transcript_history,
           Len(bots[s].transcript_history) + 1, Len(bots'[s].transcript_history))

\* C16: a chat turn for a session in the map appends the candidate's reply as
\* a human entry before any generation call, whatever the state of the
\* session, and the generation calls of the turn append only ai and PROTOCOL
\* entries after it, also when the turn finishes the session.
C16_HumanEntryFirst ==
    [][\A c \in Clients :
          /\ (/\ reqs[c].pc = "pending" /\ reqs'[c].pc # "pending"
              /\ reqs[c].sid \in INTERVIEW_SESSIONS)
                 => /\ Appended(reqs[c].sid) = <<Entry("human", CANDIDATE_REPLY)>>
                    /\ reqs'[c].pc = "llm" /\ reqs'[c].calls = 0
                    /\ UNCHANGED last_call
          /\ CallEnds(c)
                 => /\ bots[reqs[c].sid].transcript_history # <<>>
                    /\ IsPrefix(bots[reqs[c].sid].transcript_history,
                                bots'[reqs[c].sid].transcript_history)
                    /\ \A i \in 1..Len(Appended(reqs[c].sid)) :
                           Appended(reqs[c].sid)[i].type \in {"ai", "PROTOCOL"}
                    /\ reqs[c].calls = 0
                           => bots[reqs[c].sid].transcript_history[
                                  Len(bots[reqs[c].sid].transcript_history)]
                                  = Entry("human", CANDIDATE_REPLY)]_vars

C16_Witness ==
    \E s \in Sessions :
        LET th == bots[s].transcript_history
        IN  /\ bots[s].is_finished /\ bots[s].warning_count = 2
            /\ Len(th) >= 4
            /\ SubSeq(th, Len(th) - 3, Len(th)) =
                   <<Entry("human", CANDIDATE_REPLY), Entry("PROTOCOL", WARNING_TAG),
                     Entry("PROTOCOL", TERMINATION_TAG), Entry("ai", termination_message)>>

\* the types of the entries of a transcript, in order
Types(th) == [i \in 1..Len(th) |-> th[i].type]

\* session s has seen exactly: start, a first turn answered by an ordinary
\* reply, and a second turn answered by the misconduct tag whose re-ask call
\* returned the question
WarnedOnSecondTurn(s) ==
    /\ Len(bots[s].guide_log) = 3
    /\ bots[s].guide_log[1] = "FIRST_TOPIC"
    /\ bots[s].guide_log[2] \in {"ASK_FOLLOW_UP", "PIVOT_NEW_TOPIC"}
    /\ bots[s].guide_log[3] = "RE_ASK"
    /\ Len(bots[s].memory) >= 3 /\ bots[s].memory[3] = Entry("ai", Question)
    /\ last_call = [sid |-> s, site |-> "re_ask", out |-> Ok(Question)]

\* C17 as stated: after start, an ordinary first turn and a second turn
\* answered by a first misconduct tag, the transcript has exactly 5 entries:
\* human, ai, human, PROTOCOL(warning), and one ai entry that holds the
\* warning and the re-asked question.
C17_FiveEntries ==
    \A s \in Sessions :
        WarnedOnSecondTurn(s) =>
            /\ Types(bots[s].transcript_history) = <<"human", "ai", "human", "PROTOCOL", "ai">>
            /\ bots[s].transcript_history[4].content = WARNING_TAG
            /\ bots[s].transcript_history[5].content = warning_message \o <<" ">> \o Question

\* C17 as amended: the transcript is then the ai greeting, human, ai, human,
\* PROTOCOL(warning), the ai warning message and the ai re-asked question, in
\* this order: 7 entries, followed by the PROTOCOL pivot marker of the turn
\* when MAX_ELABORATIONS is 0.
C17_SevenEntries ==
    \A s \in Sessions :
        WarnedOnSecondTurn(s) =>
            bots[s].transcript_history =
                <<Entry("ai", initial_greeting),
                  Entry("human", CANDIDATE_REPLY),
                  Entry("ai", Question),
                  Entry("human", CANDIDATE_REPLY),
                  Entry("PROTOCOL", WARNING_TAG),
                  Entry("ai", warning_message),
                  Entry("ai", Question)>>
                \o (IF cfg.M = 0 THEN <<Entry("PROTOCOL", PIVOT_TAG)>> ELSE <<>>)

C17_Witness ==
    \E s \in Sessions :
        /\ WarnedOnSecondTurn(s)
        /\ cfg.N = MAX_PRIMARY_QUESTIONS /\ cfg.M = MAX_ELABORATIONS
        /\ Len(bots[s].transcript_history) = 7
        /\ resp.session_id = s /\ resp.message = Question /\ resp.calls = 2

\* C18: no reply returned to the candidate is the misconduct tag itself,
\* whichever generation call of the turn produced it.
C18_TagNeverReturned ==
    resp.status = 200 => resp.message # WARNING_TAG

\* C19: a step changes the bot of at most one session, and only a step of a
\* chat request for that session does; the session map changes only by the
\* insert of the new id in start_interview and by the delete of the id of a
\* turn that returned is_finished = TRUE.
C19_SessionsIndependent ==
    [][/\ \A s \in Sessions :
              bots'[s] # bots[s]
                  => /\ \A t \in Sessions \ {s} : bots'[t] = bots[t]
                     /\ \E c \in Clients :
                            /\ reqs[c].sid = s /\ reqs[c].pc \in {"pending", "llm"}
                            /\ reqs'[c] # reqs[c]
       /\ \A s \in Sessions :
              (s \in INTERVIEW_SESSIONS) # (s \in INTERVIEW_SESSIONS')
                  => /\ s \in INTERVIEW_SESSIONS
                     /\ \E c \in Clients : TurnEnds(c) /\ reqs[c].sid = s
                     /\ resp'.session_id = s /\ resp'.is_finished
       /\ INTERVIEW_SESSIONS' \ INTERVIEW_SESSIONS # {}
              => /\ INTERVIEW_SESSIONS' = INTERVIEW_SESSIONS \cup {Len(bots) + 1}
                 /\ Len(bots') = Len(bots) + 1
                 /\ \A s \in Sessions : bots'[s] = bots[s]
                 /\ UNCHANGED <<reqs, last_call>>]_vars

C19_Witness ==
    \E s \in Sessions, t \in INTERVIEW_SESSIONS :
        /\ s # t
        /\ bots[s].is_finished /\ s \notin INTERVIEW_SESSIONS
        /\ resp.session_id = s /\ resp.is_finished
        /\ TurnsOf(bots[t]) >= 1
        /\ \E c \in Clients : reqs[c].pc = "pending" /\ reqs[c].sid = t

\* C20: a turn that starts outside soft-close with primary_question_count >=
\* MAX_PRIMARY_QUESTIONS initiates soft-close whatever elaboration_count is,
\* with no pacing guide, and returns is_finished = FALSE; a first turn
\* answered by a question uses FIRST_TOPIC and sets primary_question_count to
\* 1; a soft-close turn whose reply carries the sentinel finishes the session.
C20_SoftCloseOverride ==
    [][\A c \in Clients :
          /\ (/\ reqs[c].pc = "pending" /\ reqs'[c].pc # "pending"
              /\ reqs[c].sid \in INTERVIEW_SESSIONS
              /\ ~bots[reqs[c].sid].is_in_soft_close
              /\ bots[reqs[c].sid].primary_question_count >= cfg.N)
                 => /\ reqs'[c].site = "soft_initiate"
                    /\ bots'[reqs[c].sid].is_in_soft_close
                    /\ bots'[reqs[c].sid].guide_log =
                           Append(bots[reqs[c].sid].guide_log, "SOFT_CLOSE")
          /\ (TurnEnds(c) /\ reqs[c].site = "soft_initiate" /\ last_call'.out.kind # "crash")
                 => /\ ~resp'.is_finished
                    /\ ~bots'[reqs[c].sid].is_finished
                    /\ reqs[c].sid \in INTERVIEW_SESSIONS'
          /\ (/\ TurnEnds(c) /\ reqs[c].site = "soft_continue"
              /\ last_call'.out.kind = "ok"
              /\ Contains(Generated, SENTINEL_END_PHRASE))
                 => resp'.is_finished /\ bots'[reqs[c].sid].is_finished
          /\ (/\ TurnEnds(c) /\ reqs[c].site = "turn"
              /\ bots[reqs[c].sid].primary_question_count = 0
              /\ last_call'.out = Ok(Question))
                 => /\ bots'[reqs[c].sid].primary_question_count = 1
                    /\ bots[reqs[c].sid].guide_log[Len(bots[reqs[c].sid].guide_log)]
                           = "FIRST_TOPIC"]_vars

C20_Witness ==
    \E s \in Sessions :
        /\ cfg.N = 1 /\ cfg.M = 0
        /\ bots[s].guide_log = <<"FIRST_TOPIC", "SOFT_CLOSE", "FINAL_SIGNAL">>
        /\ bots[s].primary_question_count = 1
        /\ bots[s].is_finished
        /\ last_call.site = "soft_continue"
        /\ resp.session_id = s /\ resp.is_finished

\* the generation call ending in this step returned the misconduct tag on an
\* ordinary turn of client c, and the session has warnings left
FirstOffense(c) ==
    /\ CallEnds(c) /\ reqs[c].site = "turn"
    /\ last_call'.out.kind = "ok" /\ Generated = WARNING_TAG
    /\ bots[reqs[c].sid].warning_count < cfg.W

\* the pacing counters of session s advance by one step, or not at all
AtMostOneStep(s) ==
    \/ /\ bots'[s].primary_question_count = bots[s].primary_question_count
       /\ bots'[s].elaboration_count = bots[s].elaboration_count
    \/ /\ bots'[s].primary_question_count = bots[s].primary_question_count
       /\ bots'[s].elaboration_count = bots[s].elaboration_count + 1
    \/ /\ bots'[s].primary_question_count = bots[s].primary_question_count + 1
       /\ bots'[s].elaboration_count = 0

\* C21: on a first-offense misconduct turn the warning message is recorded
\* without a generation call and leaves the pacing counters alone, a second
\* call is made with the re-ask instruction, its reply is the reply of the
\* turn, and the turn advances the pacing counters by at most one step.
C21_WarningTurnIsOneStep ==
    [][\A c \in Clients :
          /\ FirstOffense(c)
                 => /\ Appended(reqs[c].sid) =
                           <<Entry("PROTOCOL", WARNING_TAG), Entry("ai", warning_message)>>
                    /\ reqs'[c].pc = "llm" /\ reqs'[c].site = "re_ask"
                    /\ bots'[reqs[c].sid].guide_log =
                           Append(bots[reqs[c].sid].guide_log, "RE_ASK")
                    /\ bots'[reqs[c].sid].primary_question_count =
                           bots[reqs[c].sid].primary_question_count
                    /\ bots'[reqs[c].sid].elaboration_count =
                           bots[reqs[c].sid].elaboration_count
                    /\ UNCHANGED resp
          /\ (CallEnds(c) /\ reqs[c].site = "re_ask" /\ last_call'.out.kind # "crash")
                 => /\ TurnEnds(c)
                    /\ ~Contains(Generated, SENTINEL_END_PHRASE) => resp'.message = Generated
                    /\ AtMostOneStep(reqs[c].sid)]_vars

C21_Witness ==
    /\ resp.status = 200 /\ resp.calls = 2 /\ resp.message = Question
    /\ last_call.site = "re_ask"
    /\ bots[resp.session_id].warning_count = 1
    /\ bots[resp.session_id].primary_question_count = 2
    /\ bots[resp.session_id].elaboration_count = 1

\* C22: a turn makes at most two generation calls: two on a first-offense
\* misconduct turn and one on every other turn; a call that raises ends the
\* turn and is not made again.
C22_AtMostTwoCalls ==
    [][\A c \in Clients :
          CallEnds(c)
              => /\ reqs[c].calls <= 1
                 /\ FirstOffense(c) => ~TurnEnds(c) /\ reqs'[c].calls = 1
                 /\ ~FirstOffense(c)
                        => /\ TurnEnds(c)
                           /\ resp'.calls <= 2
                           /\ last_call'.out.kind # "crash"
                                  => /\ resp'.calls = reqs[c].calls + 1
                                     /\ resp'.calls = 2 <=> reqs[c].site = "re_ask"]_vars

C22_Witness ==
    /\ resp.status = 200 /\ resp.calls = 2
    /\ last_call.site = "re_ask" /\ last_call.out.kind = "raise"
    /\ bots[resp.session_id].warning_count = 1

\* the counters of session s are left as they are by the step
CountersUnchanged(s) ==
    /\ bots'[s].warning_count = bots[s].warning_count
    /\ bots'[s].primary_question_count = bots[s].primary_question_count
    /\ bots'[s].elaboration_count = bots[s].elaboration_count

\* C23: the misconduct tag that takes warning_count past MAX_WARNINGS ends
\* the turn without a further generation call: after the human entry the
\* transcript gains the PROTOCOL warning marker, the PROTOCOL termination
\* marker and the ai termination message, which is the reply returned with
\* is_finished = TRUE; the pacing counters are unchanged by the turn.
C23_SecondOffenseTerminates ==
    [][\A c \in Clients :
          /\ (/\ CallEnds(c) /\ reqs[c].site = "turn"
              /\ last_call'.out.kind = "ok" /\ Generated = WARNING_TAG
              /\ bots[reqs[c].sid].warning_count >= cfg.W)
                 => /\ TurnEnds(c)
                    /\ reqs[c].calls = 0 /\ resp'.calls = 1
                    /\ bots[reqs[c].sid].transcript_history[
                           Len(bots[reqs[c].sid].transcript_history)]
                           = Entry("human", CANDIDATE_REPLY)
                    /\ Appended(reqs[c].sid) =
                           <<Entry("PROTOCOL", WARNING_TAG),
                             Entry("PROTOCOL", TERMINATION_TAG),
                             Entry("ai", termination_message)>>
                    /\ resp'.message = termination_message
                    /\ resp'.is_finished /\ bots'[reqs[c].sid].is_finished
                    /\ bots'[reqs[c].sid].warning_count = cfg.W + 1
                    /\ bots'[reqs[c].sid].primary_question_count =
                           bots[reqs[c].sid].primary_question_count
                    /\ bots'[reqs[c].sid].elaboration_count =
                           bots[reqs[c].sid].elaboration_count
          /\ (/\ reqs[c].pc = "pending" /\ reqs'[c].pc = "llm")
                 => CountersUnchanged(reqs[c].sid)]_vars

C23_Witness ==
    /\ resp.status = 200 /\ resp.is_finished /\ resp.calls = 1
    /\ resp.message = termination_message
    /\ last_call.site = "turn"
    /\ bots[resp.session_id].warning_count = 2
    /\ bots[resp.session_id].primary_question_count = 2
    /\ bots[resp.session_id].elaboration_count = 1
    /\ resp.session_id \notin INTERVIEW_SESSIONS

\* C24: a soft-close continuation turn whose generated reply has no sentinel
\* leaves is_finished FALSE, is_in_soft_close TRUE, the three counters
\* unchanged and the session in the map, so that the same turn can follow
\* again.
C24_SoftCloseStaysOpen ==
    [][\A c \in Clients :
          (/\ CallEnds(c) /\ reqs[c].site = "soft_continue"
           /\ last_call'.out.kind # "crash"
           /\ ~Contains(Generated, SENTINEL_END_PHRASE))
              => /\ TurnEnds(c)
                 /\ ~resp'.is_finished /\ resp'.message = Generated
                 /\ ~bots'[reqs[c].sid].is_finished
                 /\ bots'[reqs[c].sid].is_in_soft_close
                 /\ CountersUnchanged(reqs[c].sid)
                 /\ reqs[c].sid \in INTERVIEW_SESSIONS']_vars

C24_Witness ==
    \E s \in INTERVIEW_SESSIONS :
        /\ Count(bots[s].guide_log, "FINAL_SIGNAL") >= 2
        /\ ~bots[s].is_finished /\ bots[s].is_in_soft_close
        /\ resp.session_id = s /\ ~resp.is_finished
        /\ last_call.site = "soft_continue"
        /\ \A c \in Clients : reqs[c].pc = "idle"

\* C25: the history sent with a generation call holds at most the most
\* recent MEMORY_WINDOW message pairs.
C25_HistoryWindowed ==
    \A c \in Clients :
        reqs[c].pc = "llm" => Len(Messages(bots[reqs[c].sid])) <= 2 * MEMORY_WINDOW

NotProtocol(e) == e.type # "PROTOCOL"

ProtocolTags ==
    {SENTINEL_END_PHRASE, TERMINATION_TAG, WARNING_TAG, PIVOT_TAG, SOFT_CLOSE_TAG}

\* the history equals the transcript without its PROTOCOL entries
HistoryIsProjection(b) == Messages(b) = SelectSeq(b.transcript_history, NotProtocol)

\* C26: while a session is unfinished its message history is its transcript
\* without the PROTOCOL entries, in the same order, and holds no protocol
\* marker and no misconduct tag.
C26_HistoryIsTranscriptProjection ==
    \A s \in Sessions :
        ~bots[s].is_finished
            => /\ HistoryIsProjection(bots[s])
               /\ \A i \in 1..Len(Messages(bots[s])) :
                      Messages(bots[s])[i].content \notin ProtocolTags

\* the guides issued to session s in the step
NewGuides(s) ==
    SubSeq(bots'[s].guide_log, Len(bots[s].guide_log) + 1, Len(bots'[s].guide_log))

\* C27: a session in soft-close has primary_question_count =
\* MAX_PRIMARY_QUESTIONS; once is_in_soft_close is TRUE it stays TRUE, and
\* from then on no counter changes and no pacing or re-ask guide is issued.
C27_SoftCloseIsFinalPhase ==
    [][\A s \in Sessions :
          /\ bots'[s].is_in_soft_close => bots'[s].primary_question_count = cfg.N
          /\ bots[s].is_in_soft_close
                 => /\ bots'[s].is_in_soft_close
                    /\ CountersUnchanged(s)
                    /\ \A i \in 1..Len(NewGuides(s)) : NewGuides(s)[i] = "FINAL_SIGNAL"]_vars

C27_Witness ==
    \E s \in INTERVIEW_SESSIONS :
        /\ cfg.N = MAX_PRIMARY_QUESTIONS
        /\ bots[s].is_in_soft_close /\ ~bots[s].is_finished
        /\ bots[s].primary_question_count = cfg.N
        /\ bots[s].warning_count = 1
        /\ Count(bots[s].guide_log, "FINAL_SIGNAL") >= 1
        /\ last_call.site = "soft_continue"
        /\ _invoke_llm_for_response(last_call.out) = WARNING_TAG

\* C28: the ASK_FOLLOW_UP guide is issued only while 1 <=
\* primary_question_count < MAX_PRIMARY_QUESTIONS, and a session whose
\* primary_question_count is MAX_PRIMARY_QUESTIONS has elaboration_count 0:
\* the last topic gets no follow-up.
C28_LastTopicWithoutFollowUp ==
    [][\A s \in Sessions :
          /\ bots'[s].primary_question_count = cfg.N => bots'[s].elaboration_count = 0
          /\ \A i \in 1..Len(NewGuides(s)) :
                 NewGuides(s)[i] = "ASK_FOLLOW_UP"
                     => /\ bots[s].primary_question_count >= 1
                        /\ bots[s].primary_question_count < cfg.N]_vars

C28_Witness ==
    \E s \in Sessions :
        /\ cfg.N = 2 /\ cfg.M = 1
        /\ bots[s].guide_log =
               <<"FIRST_TOPIC", "ASK_FOLLOW_UP", "PIVOT_NEW_TOPIC", "SOFT_CLOSE">>
        /\ bots[s].primary_question_count = 2
        /\ bots[s].elaboration_count = 0

\* the counters of session s advance as after an answered turn: the first
\* topic, a follow-up, or a pivot with its marker
AdvancesAsAnswered(s) ==
    IF bots[s].primary_question_count = 0
    THEN /\ bots'[s].primary_question_count = 1
         /\ bots'[s].elaboration_count = bots[s].elaboration_count
    ELSE IF bots[s].elaboration_count < cfg.M
    THEN /\ bots'[s].primary_question_count = bots[s].primary_question_count
         /\ bots'[s].elaboration_count = bots[s].elaboration_count + 1
    ELSE /\ bots'[s].primary_question_count = bots[s].primary_question_count + 1
         /\ bots'[s].elaboration_count = 0
         /\ bots'[s].transcript_history[Len(bots'[s].transcript_history)]
                = Entry("PROTOCOL", PIVOT_TAG)

\* C29 as stated: a first-offense misconduct turn whose re-asked reply does
\* not start with a clarification preamble advances the pacing counters as
\* an answered turn does.
C29_ReaskAdvancesPacing ==
    [][\A c \in Clients :
          (/\ TurnEnds(c) /\ reqs[c].site = "re_ask"
           /\ last_call'.out.kind # "crash"
           /\ ~ClarificationReply(resp'.message))
              => AdvancesAsAnswered(reqs[c].sid)]_vars

\* C29 as amended: the same, for a re-asked reply that neither starts with a
\* clarification preamble nor carries the sentinel.
C29_ReaskWithoutSentinelAdvancesPacing ==
    [][\A c \in Clients :
          (/\ TurnEnds(c) /\ reqs[c].site = "re_ask"
           /\ last_call'.out.kind # "crash"
           /\ ~ClarificationReply(resp'.message)
           /\ ~Contains(Generated, SENTINEL_END_PHRASE))
              => /\ AdvancesAsAnswered(reqs[c].sid)
                 /\ ~resp'.is_finished]_vars

C29_Witness ==
    /\ resp.status = 200 /\ resp.calls = 2 /\ ~resp.is_finished
    /\ last_call.site = "re_ask"
    /\ cfg.M = MAX_ELABORATIONS
    /\ bots[resp.session_id].warning_count = 1
    /\ bots[resp.session_id].primary_question_count = 2
    /\ bots[resp.session_id].elaboration_count = 0
    /\ bots[resp.session_id].transcript_history[
           Len(bots[resp.session_id].transcript_history)] = Entry("PROTOCOL", PIVOT_TAG)

\* the number of processed turns after which a session without clarification
\* replies and with a sentinel in its soft-close goodbye is over
TurnBound == 1 + (cfg.N - 1) * (cfg.M + 1) + 2

\* C30: a turn that ends in a session without clarification replies, and
\* without a soft-close continuation reply that lacks the sentinel, is at
\* most the session's turn 1 + (N - 1) * (M + 1) + 2, and that turn returns
\* is_finished = TRUE and leaves the session out of the map, whatever
\* misconduct tags, failed calls and early sentinels the session has seen.
C30_TurnBound ==
    [][\A c \in Clients :
          (/\ TurnEnds(c)
           /\ NoClarification(bots'[reqs[c].sid])
           /\ Count(bots'[reqs[c].sid].guide_log, "FINAL_SIGNAL") <= 1
           /\ (reqs[c].site = "soft_continue" /\ last_call'.out.kind # "crash")
                  => Contains(Generated, SENTINEL_END_PHRASE))
              => /\ TurnsOf(bots'[reqs[c].sid]) <= TurnBound
                 /\ TurnsOf(bots'[reqs[c].sid]) = TurnBound
                        => /\ resp'.is_finished
                           /\ reqs[c].sid \notin INTERVIEW_SESSIONS']_vars

C30_Witness ==
    \E s \in Sessions :
        /\ cfg.N = MAX_PRIMARY_QUESTIONS /\ cfg.M = MAX_ELABORATIONS
        /\ TurnsOf(bots[s]) = TurnBound
        /\ bots[s].is_finished /\ bots[s].is_in_soft_close
        /\ bots[s].warning_count = 1
        /\ NoClarification(bots[s])
        /\ resp.session_id = s /\ resp.is_finished /\ ~resp.raised

====
